---- MODULE Spec2Model ----
(***************************************************************************)
(* Model of the GTO-agent poker pipeline:                                  *)
(*   llm_agent/game_info_extractor.py  format_card, format_cards_array,   *)
(*                                     check_duplicate_cards,             *)
(*                                     format_game_info, extract_poker_info*)
(*   llm_agent/poker_text_detector.py  PokerTextDetector                  *)
(*   llm_agent/web_app.py              index, process, clear_history      *)
(*                                                                         *)
(* Python strings are modelled as sequences of one-character strings, so  *)
(* that strip, lower, upper, split, rstrip and int() are computed on the  *)
(* characters the way the code computes them.                             *)
(***************************************************************************)
EXTENDS Integers, Sequences, FiniteSets, TLC

VARIABLES
    cardTok, cardOut, cardAgain, cpc,      \* format_card: input, result, result fed back, position
    actIn, actOut, apc,                    \* format_actions: input list, result, position
    candidate, vres,                       \* format_game_info: raw candidate, outcome
    poker_keywords, dtext, dthreshold, dres, \* PokerTextDetector: lexicon, tokens, threshold, outcome
    session, req                           \* web_app: session cookie content, last handled request

vars == <<cardTok, cardOut, cardAgain, cpc, actIn, actOut, apc, candidate, vres,
          poker_keywords, dtext, dthreshold, dres, session, req>>

cardVars == <<cardTok, cardOut, cardAgain, cpc>>
actVars  == <<actIn, actOut, apc>>
valVars  == <<candidate, vres>>
detVars  == <<poker_keywords, dtext, dthreshold, dres>>
webVars  == <<session, req>>

(***************************************************************************)
(* Bounds                                                                  *)
(***************************************************************************)
MaxCardLen == 3     \* longest raw card token
MaxTail    == 3     \* longest text after the opening of an action token
MaxActs    == 2     \* longest raw action list
MaxHand    == 2     \* longest raw user_hand
MaxFlop    == 3     \* longest raw flop
MaxTextLen == 3     \* longest token sequence handed to the detector
MaxTurns   == 2     \* most completed exchanges kept in one conversation

\* Python None / an absent value: a one-element marker that is no character sequence
None == <<"None">>

(***************************************************************************)
(* Generic helpers                                                         *)
(***************************************************************************)
SeqsUpTo(S, n) == UNION {[1..k -> S] : k \in 0..n}

Range(s) == {s[i] : i \in 1..Len(s)}

RECURSIVE SelectSeqBy(_, _)
\* [x for x in s if x /= <<>>]  (a list comprehension keeping truthy strings)
SelectSeqBy(s, drop) ==
    IF s = <<>> THEN <<>>
    ELSE IF Head(s) = drop THEN SelectSeqBy(Tail(s), drop)
         ELSE <<Head(s)>> \o SelectSeqBy(Tail(s), drop)

(***************************************************************************)
(* Python str methods on character sequences                               *)
(***************************************************************************)
UpperChars == <<"A","B","C","D","E","F","G","H","I","J","K","L","M",
                "N","O","P","Q","R","S","T","U","V","W","X","Y","Z">>
LowerChars == <<"a","b","c","d","e","f","g","h","i","j","k","l","m",
                "n","o","p","q","r","s","t","u","v","w","x","y","z">>
Whitespace == {" ", "\t", "\n"}

LowerChar(c) ==
    IF \E i \in 1..26 : UpperChars[i] = c
    THEN LowerChars[CHOOSE i \in 1..26 : UpperChars[i] = c] ELSE c

UpperChar(c) ==
    IF \E i \in 1..26 : LowerChars[i] = c
    THEN UpperChars[CHOOSE i \in 1..26 : LowerChars[i] = c] ELSE c

StrLower(s) == [i \in 1..Len(s) |-> LowerChar(s[i])]
StrUpper(s) == [i \in 1..Len(s) |-> UpperChar(s[i])]

RECURSIVE LStrip(_, _)
LStrip(s, cs) ==
    IF s # <<>> /\ Head(s) \in cs THEN LStrip(Tail(s), cs) ELSE s

RECURSIVE RStrip(_, _)
RStrip(s, cs) ==
    IF s # <<>> /\ s[Len(s)] \in cs THEN RStrip(SubSeq(s, 1, Len(s) - 1), cs) ELSE s

StrStrip(s) == RStrip(LStrip(s, Whitespace), Whitespace)

StartsWith(s, p) == Len(s) >= Len(p) /\ SubSeq(s, 1, Len(p)) = p

(***************************************************************************)
(* game_info_extractor.format_card                                         *)
(***************************************************************************)
valid_ranks == {"A", "K", "Q", "J", "T", "2", "3", "4", "5", "6", "7", "8", "9"}
valid_suits == {"h", "d", "s", "c"}

\* the canonical Cards of the data model
Cards == {<<r, s>> : r \in valid_ranks, s \in valid_suits}

\* a slip: the suit is not checked against valid_suits
format_card_nosuit(card) ==
    LET c == StrStrip(StrLower(card)) IN
    IF c = <<>> THEN <<>>
    ELSE LET rank == UpperChar(c[1])
             suit == LowerChar(c[Len(c)])
         IN IF rank \in valid_ranks THEN <<rank, suit>> ELSE <<>>

format_card(card) ==
    LET c == StrStrip(StrLower(card)) IN
    IF c = <<>> THEN <<>>
    ELSE LET rank == UpperChar(c[1])
             suit == LowerChar(c[Len(c)])
         IN IF rank \in valid_ranks /\ suit \in valid_suits
            THEN <<rank, suit>> ELSE <<>>

format_cards_array(cards) ==
    IF cards = <<>> THEN <<>>
    ELSE LET formatted_cards == [i \in 1..Len(cards) |-> format_card(cards[i])]
         IN SelectSeqBy(formatted_cards, <<>>)

check_duplicate_cards(cards_list) == Len(cards_list) # Cardinality(Range(cards_list))

(***************************************************************************)
(* Python str.split(sep), int(str) and str(int)                            *)
(***************************************************************************)
RECURSIVE StrSplit(_, _)
\* s.split(sep) for a one-character separator: always at least one piece
StrSplit(s, sep) ==
    IF \A i \in 1..Len(s) : s[i] # sep THEN <<s>>
    ELSE LET k == CHOOSE i \in 1..Len(s) : s[i] = sep /\ \A j \in 1..(i - 1) : s[j] # sep
         IN <<SubSeq(s, 1, k - 1)>> \o StrSplit(SubSeq(s, k + 1, Len(s)), sep)

Digits == <<"0", "1", "2", "3", "4", "5", "6", "7", "8", "9">>
IsDigit(c) == \E i \in 1..10 : Digits[i] = c
DigitVal(c) == (CHOOSE i \in 1..10 : Digits[i] = c) - 1

\* the digit part of an int() literal: digits, single underscores only between digits
IsDigitBody(b) ==
    /\ b # <<>>
    /\ IsDigit(b[1]) /\ IsDigit(b[Len(b)])
    /\ \A i \in 1..Len(b) : IsDigit(b[i]) \/ b[i] = "_"
    /\ \A i \in 1..(Len(b) - 1) : ~(b[i] = "_" /\ b[i + 1] = "_")

RECURSIVE DigitsValue(_, _)
DigitsValue(b, acc) ==
    IF b = <<>> THEN acc
    ELSE IF Head(b) = "_" THEN DigitsValue(Tail(b), acc)
         ELSE DigitsValue(Tail(b), 10 * acc + DigitVal(Head(b)))

\* int(s): [ok |-> FALSE] stands for ValueError
PyInt(s) ==
    LET t    == StrStrip(s)
        neg  == t # <<>> /\ Head(t) = "-"
        sign == t # <<>> /\ Head(t) \in {"-", "+"}
        body == IF sign THEN Tail(t) ELSE t
    IN IF IsDigitBody(body)
       THEN [ok |-> TRUE, val |-> IF neg THEN 0 - DigitsValue(body, 0) ELSE DigitsValue(body, 0)]
       ELSE [ok |-> FALSE, val |-> 0]

RECURSIVE NatToStr(_)
NatToStr(n) == IF n < 10 THEN <<Digits[n + 1]>> ELSE NatToStr(n \div 10) \o <<Digits[(n % 10) + 1]>>

\* str(n) / f"{n}"
IntToStr(n) == IF n < 0 THEN <<"-">> \o NatToStr(0 - n) ELSE NatToStr(n)

(***************************************************************************)
(* game_info_extractor.format_game_info.format_actions                     *)
(***************************************************************************)
sBet   == <<"B", "e", "t">>
sRaise == <<"R", "a", "i", "s", "e">>
sAllIn == <<"A", "l", "l", "I", "n">>
sCall  == <<"C", "a", "l", "l">>
sCheck == <<"C", "h", "e", "c", "k">>
sFold  == <<"F", "o", "l", "d">>

plain_actions == {sCall, sCheck}
sized_prefixes == {sBet \o <<"(">>, sRaise \o <<"(">>, sAllIn \o <<"(">>}

\* one iteration of the loop: the list of 0 or 1 tokens appended for `action`
format_action(action) ==
    IF \E p \in sized_prefixes : StartsWith(action, p)
    THEN LET parts  == StrSplit(action, "(")
             amount == PyInt(RStrip(parts[2], {")"}))
             action_type == parts[1]
         IN IF amount.ok
            THEN <<action_type \o <<"(">> \o IntToStr(amount.val) \o <<")">>>>
            ELSE <<>>
    ELSE IF action \in plain_actions THEN <<action>> ELSE <<>>

RECURSIVE format_actions(_)
format_actions(actions_list) ==
    IF actions_list = <<>> THEN <<>>
    ELSE format_action(Head(actions_list)) \o format_actions(Tail(actions_list))

(***************************************************************************)
(* game_info_extractor.format_game_info                                    *)
(*                                                                         *)
(* A raw candidate is a record; a position that is absent from the JSON    *)
(* object is None.  The card and action fields are lists; an absent list,  *)
(* None and [] are all falsy for game_info.get(field) and are modelled as  *)
(* the empty list.                                                         *)
(***************************************************************************)
Success          == "Success"
ErrUserPos       == "Error: User position is missing."
ErrOppPos        == "Error: Opponent position is missing."
ErrSamePos       == "Error: User and opponent positions could not be the same."
ErrHandMissing   == "Error: User hand is missing."
ErrHandCount     == "Error: User hand must contain exactly 2 cards."
ErrFlopCount     == "Error: Flop must contain exactly 3 cards."
ErrTurnCount     == "Error: Turn must contain exactly 1 card."
ErrRiverCount    == "Error: River must contain exactly 1 card."
ErrDuplicate     == "Error: Duplicate cards found."
ErrNoJSON        == "Error: No JSON object found in the response."

\* lines 56-65: the position checks, on the stripped, upper-cased positions
position_status(status, user_pos, opp_pos) ==
    LET s1 == IF user_pos = <<>> THEN ErrUserPos
              ELSE IF opp_pos = <<>> THEN ErrOppPos
              ELSE status
    IN IF user_pos = opp_pos THEN ErrSamePos ELSE s1

\* a slip: each card check runs only while no error was found yet
card_count_status_first(status, game_info) ==
    LET s3 == IF status # Success THEN status
              ELSE IF game_info.user_hand = <<>> THEN ErrHandMissing
              ELSE IF Len(game_info.user_hand) # 2 THEN ErrHandCount
              ELSE status
        s4 == IF s3 = Success /\ game_info.flop # <<>> /\ Len(game_info.flop) # 3
              THEN ErrFlopCount ELSE s3
        s5 == IF s4 = Success /\ game_info.turn # <<>> /\ Len(game_info.turn) # 1
              THEN ErrTurnCount ELSE s4
    IN IF s5 = Success /\ game_info.river # <<>> /\ Len(game_info.river) # 1
       THEN ErrRiverCount ELSE s5

\* lines 68-80: the count checks, on the raw lists
card_count_status(status, game_info) ==
    LET s3 == IF game_info.user_hand = <<>> THEN ErrHandMissing
              ELSE IF Len(game_info.user_hand) # 2 THEN ErrHandCount
              ELSE status
        s4 == IF game_info.flop # <<>> /\ Len(game_info.flop) # 3
              THEN ErrFlopCount ELSE s3
        s5 == IF game_info.turn # <<>> /\ Len(game_info.turn) # 1
              THEN ErrTurnCount ELSE s4
    IN IF game_info.river # <<>> /\ Len(game_info.river) # 1
       THEN ErrRiverCount ELSE s5

\* a slip: the river is left out of the duplicate check
all_cards_noriver(formatted_info) ==
    formatted_info.user_hand \o formatted_info.flop \o formatted_info.turn

\* lines 87-95: extending by an empty list adds nothing
all_cards(formatted_info) ==
    formatted_info.user_hand \o formatted_info.flop
        \o formatted_info.turn \o formatted_info.river

\* format_game_info(game_info): what the call produces, a returned
\* (formatted_info, status_message) pair or a raised KeyError
format_game_info(game_info) ==
    IF game_info.user_position = None \/ game_info.opponent_position = None
    THEN [kind |-> "raise", info |-> game_info, status |-> "KeyError"]
    ELSE
    LET user_pos == StrUpper(StrStrip(game_info.user_position))
        opp_pos  == StrUpper(StrStrip(game_info.opponent_position))
        s2 == position_status(Success, user_pos, opp_pos)
        s6 == card_count_status(s2, game_info)
        f1 == [game_info EXCEPT
                 !.user_position = user_pos,
                 !.opponent_position = opp_pos,
                 !.user_hand = format_cards_array(game_info.user_hand),
                 !.flop = format_cards_array(game_info.flop),
                 !.turn = format_cards_array(game_info.turn),
                 !.river = format_cards_array(game_info.river)]
        s7 == IF check_duplicate_cards(all_cards(f1)) THEN ErrDuplicate ELSE s6
        f2 == [f1 EXCEPT
                 !.flop_actions = format_actions(game_info.flop_actions),
                 !.turn_actions = format_actions(game_info.turn_actions),
                 !.river_actions = format_actions(game_info.river_actions)]
    IN [kind |-> "return", info |-> f2, status |-> s7]

(***************************************************************************)
(* poker_text_detector.PokerTextDetector                                   *)
(*                                                                         *)
(* A text is modelled by the token sequence jieba.cut yields for it.  The  *)
(* lexicon's CJK terms are written in pinyin with a "zh:" prefix.  Scores  *)
(* are exact rationals [num, den] in thousandths: value = num/(1000*den).  *)
(***************************************************************************)
BaseKeywords ==
    {"zh:dezhoupuke", "zh:puke", "poker", "texas holdem", "holdem",
     "zh:paiju", "game", "zh:dichi", "pot", "zh:mangzhu", "blind",
     "zh:xiaomang", "small blind", "zh:damang", "big blind", "zh:zhuangjia", "dealer",
     "zh:anniu", "button", "zh:weizhi", "position",
     "zh:fanpai", "flop", "zh:zhuanpai", "turn", "zh:hepai", "river",
     "zh:gonggongpai", "community cards", "zh:shoupai", "hole cards",
     "zh:qipai", "fold", "zh:genzhu", "call", "zh:jiazhu", "raise",
     "zh:quanya", "all in", "zh:xiazhu", "bet", "zh:guopai", "check",
     "zh:suoha", "zh:zhahu", "bluff", "zh:toumang", "steal",
     "zh:tonghuashun", "straight flush", "zh:sitiao", "four of a kind",
     "zh:hulu", "full house", "zh:tonghua", "flush", "zh:shunzi", "straight",
     "zh:santiao", "three of a kind", "zh:liangdui", "two pair",
     "zh:yidui", "one pair", "zh:gaopai", "high card",
     "AA", "KK", "QQ", "JJ", "TT", "AK", "AQ", "AJ",
     "KQ", "KJ", "QJ", "zh:hongtao", "hearts", "zh:heitao", "spades",
     "zh:meihua", "clubs", "zh:fangkuai", "diamonds",
     "A", "K", "Q", "J", "10", "9", "8", "7", "6", "5", "4", "3", "2"}

add_keywords(keywords, new_keywords) == keywords \cup new_keywords

\* Counter(words)[word]
WordCount(words, word) == Cardinality({i \in 1..Len(words) : words[i] = word})

RECURSIVE LnMilli(_, _)
\* np.log(p / q) in thousandths, for p >= q > 0: 693 per doubling, the chord
\* of the logarithm between 1 and 2 for the rest
LnMilli(p, q) ==
    IF p >= 2 * q THEN 693 + LnMilli(p, 2 * q) ELSE (693 * (p - q)) \div q

\* a slip: total_words is divided by before the words are looked at
calculate_tf_eager(words) ==
    IF Len(words) = 0 THEN [kind |-> "raise", tf |-> <<>>]
    ELSE [kind |-> "return",
          tf |-> [word \in Range(words) |-> [num |-> WordCount(words, word), den |-> Len(words)]]]

\* calculate_tf: {word: count/total_words}; no entry, so no division, for no words
calculate_tf(words) ==
    [kind |-> "return",
     tf |-> [word \in Range(words) |-> [num |-> WordCount(words, word), den |-> Len(words)]]]

calculate_idf(keywords, words) ==
    [word \in Range(words) |->
        IF word \in keywords THEN LnMilli(Cardinality(keywords), 1 + 1) ELSE 0]

RECURSIVE SumOver(_, _, _)
\* sum(tf[word].num * idf[word] for word in S)
SumOver(S, tf, idf) ==
    IF S = {} THEN 0
    ELSE LET w == CHOOSE x \in S : TRUE
         IN tf[w].num * idf[w] + SumOver(S \ {w}, tf, idf)

\* calculate_tfidf: every tf entry has the denominator total_words
calculate_tfidf(keywords, words) ==
    LET tf  == calculate_tf(words)
        idf == calculate_idf(keywords, words)
    IN IF tf.kind = "raise" THEN [kind |-> "raise", num |-> 0, den |-> 1]
       ELSE [kind |-> "return",
             num |-> SumOver(Range(words), tf.tf, idf),
             den |-> IF words = <<>> THEN 1 ELSE Len(words)]

DefaultThreshold == 100     \* threshold: float = 0.1, in thousandths

\* is_poker_related: score > threshold
is_poker_related(keywords, words, threshold) ==
    LET score == calculate_tfidf(keywords, words)
    IN IF score.kind = "raise" THEN [kind |-> "raise", related |-> FALSE]
       ELSE [kind |-> "return", related |-> score.num > threshold * score.den]

(***************************************************************************)
(* game_info_extractor.extract_poker_info                                  *)
(*                                                                         *)
(* The language model's behaviour is an input: the client cannot be built  *)
(* (line 170, outside the try), the request fails, the reply holds no      *)
(* {...} block, or the reply holds the JSON object game_info.              *)
(***************************************************************************)
game_info_empty ==
    [user_position |-> <<>>, opponent_position |-> <<>>,
     user_hand |-> <<>>, flop |-> <<>>, turn |-> <<>>, river |-> <<>>,
     flop_actions |-> <<>>, turn_actions |-> <<>>, river_actions |-> <<>>]

\* lines 191-198: what the try block makes of format_game_info's outcome r
\* (a raised KeyError is caught by line 196 and the bare dict returned)
extract_formatted(r) ==
    IF r.kind = "raise"
    THEN [kind |-> "dict", info |-> game_info_empty, status |-> ""]
    ELSE [kind |-> "pair", info |-> r.info, status |-> r.status]

\* kind "pair": a (dict, status) tuple; "dict": the bare dict of line 198;
\* "raise": an exception leaves the function
extract_poker_info(llm) ==
    IF llm.kind = "client_error"
    THEN [kind |-> "raise", info |-> game_info_empty, status |-> ""]
    ELSE IF llm.kind = "api_error"
    THEN [kind |-> "dict", info |-> game_info_empty, status |-> ""]
    ELSE IF llm.kind = "no_json"
    THEN [kind |-> "pair", info |-> game_info_empty, status |-> ErrNoJSON]
    ELSE extract_formatted(format_game_info(llm.game_info))

\* "Error" in status_message, for the status messages the extractor can return
ContainsError(status_message) ==
    status_message \in {ErrUserPos, ErrOppPos, ErrSamePos, ErrHandMissing, ErrHandCount,
                        ErrFlopCount, ErrTurnCount, ErrRiverCount, ErrDuplicate, ErrNoJSON}

(***************************************************************************)
(* web_app.process                                                         *)
(***************************************************************************)
cGate    == "is_poker_related"
cExtract == "extract_poker_info"
cPrompt  == "prepare_prompt"
cExplain == "explain"

UserEntry(text) == [role |-> "user", content |-> text]
AssistantEntry  == [role |-> "assistant", content |-> <<"explanation">>]

\* a slip: the extractor is called before the relevance gate is consulted
first_message_nogate(gate, ex, prompt_raises, explain_raises) ==
    IF ~gate.related
    THEN [calls |-> <<cExtract, cGate>>, outcome |-> "not_relevant"]
    ELSE IF ex.kind \in {"raise", "dict"} \/ prompt_raises
    THEN [calls |-> <<cExtract, cGate>>, outcome |-> "exception"]
    ELSE IF ContainsError(ex.status)
    THEN [calls |-> <<cExtract, cGate>>, outcome |-> "error_status"]
    ELSE [calls |-> <<cExtract, cGate, cPrompt, cExplain>>,
          outcome |-> IF explain_raises THEN "exception" ELSE "ok"]

\* a slip: the status is not looked at before the explanation is asked for
first_message_nostatus(gate, ex, prompt_raises, explain_raises) ==
    IF ~gate.related
    THEN [calls |-> <<cGate>>, outcome |-> "not_relevant"]
    ELSE IF ex.kind \in {"raise", "dict"}
    THEN [calls |-> <<cGate, cExtract>>, outcome |-> "exception"]
    ELSE IF prompt_raises
    THEN [calls |-> <<cGate, cExtract, cPrompt>>, outcome |-> "exception"]
    ELSE [calls |-> <<cGate, cExtract, cPrompt, cExplain>>,
          outcome |-> IF explain_raises THEN "exception" ELSE "ok"]

\* lines 35-83, the branch taken when the appended history has length 1:
\* gate is what is_poker_related gives for the text, and ex what
\* extract_poker_info gives if it is called
first_message(gate, ex, prompt_raises, explain_raises) ==
    IF gate.kind = "raise"
    THEN [calls |-> <<cGate>>, outcome |-> "unhandled"]
    ELSE IF ~gate.related
    THEN [calls |-> <<cGate>>, outcome |-> "not_relevant"]
    ELSE IF ex.kind = "raise"
    THEN [calls |-> <<cGate, cExtract>>, outcome |-> "exception"]
    ELSE IF ex.kind = "dict"     \* unpacking nine keys into two names: ValueError
    THEN [calls |-> <<cGate, cExtract>>, outcome |-> "exception"]
    ELSE IF ContainsError(ex.status)
    THEN [calls |-> <<cGate, cExtract>>, outcome |-> "error_status"]
    ELSE IF prompt_raises
    THEN [calls |-> <<cGate, cExtract, cPrompt>>, outcome |-> "exception"]
    ELSE [calls |-> <<cGate, cExtract, cPrompt, cExplain>>,
          outcome |-> IF explain_raises THEN "exception" ELSE "ok"]

\* a slip: the rejected first message is stored instead of an empty history
process_keeps_rejected(stored, conversation_history, fm, explain_raises) ==
    IF Len(conversation_history) = 1
    THEN [calls |-> fm.calls, outcome |-> fm.outcome,
          assigned |-> fm.outcome # "unhandled",
          history |-> IF fm.outcome = "ok"
                      THEN Append(conversation_history, AssistantEntry)
                      ELSE IF fm.outcome = "unhandled" THEN stored
                      ELSE conversation_history]
    ELSE [calls |-> <<cExplain>>,
          outcome |-> IF explain_raises THEN "unhandled" ELSE "ok",
          assigned |-> ~explain_raises,
          history |-> IF explain_raises THEN stored
                      ELSE Append(conversation_history, AssistantEntry)]

\* process() from line 35 on: conversation_history is the stored history
\* with the user's entry appended, fm the outcome of the first-message
\* branch.  The result: the calls made, how the request ends, whether the
\* session is assigned and the history it holds afterwards.  An exception
\* that leaves the handler ("unhandled") assigns nothing, so the cookie
\* keeps `stored`.
process(stored, conversation_history, fm, explain_raises) ==
    IF Len(conversation_history) = 1
    THEN [calls |-> fm.calls, outcome |-> fm.outcome,
          assigned |-> fm.outcome # "unhandled",
          history |-> IF fm.outcome = "ok"
                      THEN Append(conversation_history, AssistantEntry)
                      ELSE IF fm.outcome = "unhandled" THEN stored
                      ELSE <<>>]
    ELSE [calls |-> <<cExplain>>,
          outcome |-> IF explain_raises THEN "unhandled" ELSE "ok",
          assigned |-> ~explain_raises,
          history |-> IF explain_raises THEN stored
                      ELSE Append(conversation_history, AssistantEntry)]

(***************************************************************************)
(* Inputs                                                                  *)
(***************************************************************************)
CardAlphabet == {"A", "a", "h", "H", "X", "9", "1", " ", "d", "K"}
CardTokens   == SeqsUpTo(CardAlphabet, MaxCardLen)

TailAlphabet == {"6", "0", "-", ")", "(", "a"}
ActionHeads  == {sBet \o <<"(">>, sRaise \o <<"(">>, sAllIn \o <<"(">>,
                 sBet, sCall, sCheck, sFold, <<"b", "e", "t", "(">>}
SampleActions == {sCall, sFold, sBet \o <<"(", "6", ")">>}
\* the tokens made of a head and at most n more characters
ActionTokens(n) == {h \o t : h \in ActionHeads, t \in SeqsUpTo(TailAlphabet, n)}
\* the lists of at most k sample tokens with any one position holding any token
ActionLists(k, n) ==
    {<<>>} \cup
    UNION {{[l EXCEPT ![i] = t] : i \in DOMAIN l, t \in ActionTokens(n)} :
             l \in SeqsUpTo(SampleActions, k) \ {<<>>}}

tAh == <<"A", "h">>
tah == <<" ", "a", "h">>
tkd == <<"k", "d">>
tXh == <<"X", "h">>
tQs == <<"Q", "s">>
tqS == <<"q", "S">>
tJd == <<"J", "d">>
t2c == <<"2", "c">>
t9c == <<"9", "c">>

Candidates ==
    [user_position : {None, <<" ">>, <<"b">>},
     opponent_position : {None, <<>>, <<"B">>, <<"s">>},
     user_hand : SeqsUpTo({tAh, tkd, tXh}, MaxHand),
     flop : SeqsUpTo({tQs, tJd, t2c}, MaxFlop),
     turn : {<<>>, <<tah>>, <<t9c, tXh>>},
     river : {<<>>, <<tqS>>, <<t9c, t9c>>},
     flop_actions : {<<sBet \o <<"(", "6", ")">>, sFold, sCall>>},
     turn_actions : {<<>>},
     river_actions : {<<>>}]

Vocabulary   == {"flop", "bet", "hello", " "}
Texts        == SeqsUpTo(Vocabulary, MaxTextLen)
ExtraTerms   == {"gto", "hello"}
Thresholds   == {1, DefaultThreshold, 5000}

WebTexts == {<<>>, <<"hello", " ", "world">>, <<"flop", " ", "bet">>}
EndToEnd ==
    [user_position |-> <<"B", "T", "N">>, opponent_position |-> <<"B", "B">>,
     user_hand |-> <<tAh, <<"K", "d">>>>, flop |-> <<tQs, tJd, t2c>>,
     turn |-> <<>>, river |-> <<>>,
     flop_actions |-> <<sBet \o <<"(", "6", ")">>, sCall>>,
     turn_actions |-> <<>>, river_actions |-> <<>>]
WebCandidates ==
    {EndToEnd,
     [EndToEnd EXCEPT !.flop = <<tQs, tJd>>],
     [EndToEnd EXCEPT !.user_position = None]}
LLMReplies ==
    [kind : {"client_error", "api_error", "no_json"}, game_info : {game_info_empty}]
        \cup [kind : {"json"}, game_info : WebCandidates]

(***************************************************************************)
(* State                                                                   *)
(***************************************************************************)
NoResult == [kind |-> "none", info |-> game_info_empty, status |-> ""]
NoScore  == [kind |-> "none", num |-> 0, den |-> 1, related |-> FALSE, lexicon |-> {}]
NoReq    == [op |-> "none", text |-> <<>>, llm |-> [kind |-> "no_json", game_info |-> game_info_empty],
             prompt_raises |-> FALSE, explain_raises |-> FALSE,
             prior |-> <<>>, calls |-> <<>>, outcome |-> "none"]

IdleCard == cardTok = <<>> /\ cardOut = None /\ cardAgain = None /\ cpc = "idle"
IdleAct  == actIn = <<>> /\ actOut = <<>> /\ apc = "idle"
IdleVal  == candidate = game_info_empty /\ vres = NoResult
IdleDet  == poker_keywords = BaseKeywords /\ dtext = <<>> /\ dthreshold = DefaultThreshold
            /\ dres = NoScore
IdleWeb  == session = [has_key |-> FALSE, conversation_history |-> <<>>] /\ req = NoReq

(***************************************************************************)
(* format_card applied to a token, and to its own result                   *)
(***************************************************************************)
InitCard ==
    /\ cardTok \in CardTokens /\ cardOut = None /\ cardAgain = None /\ cpc = "in"
    /\ IdleAct /\ IdleVal /\ IdleDet /\ IdleWeb

FormatCard ==
    /\ cpc = "in"
    /\ cardOut' = format_card(cardTok)
    /\ cpc' = "once"
    /\ UNCHANGED <<cardTok, cardAgain, actVars, valVars, detVars, webVars>>

FormatCardAgain ==
    /\ cpc = "once"
    /\ cardAgain' = format_card(cardOut)
    /\ cpc' = "twice"
    /\ UNCHANGED <<cardTok, cardOut, actVars, valVars, detVars, webVars>>

NextCard == FormatCard \/ FormatCardAgain
SpecCard == InitCard /\ [][NextCard]_vars

(***************************************************************************)
(* format_actions applied to a raw action list                             *)
(***************************************************************************)
InitActions ==
    /\ actIn \in ActionLists(MaxActs, MaxTail) /\ actOut = <<>> /\ apc = "in"
    /\ IdleCard /\ IdleVal /\ IdleDet /\ IdleWeb

FormatActions ==
    /\ apc = "in"
    /\ actOut' = format_actions(actIn)
    /\ apc' = "done"
    /\ UNCHANGED <<actIn, cardVars, valVars, detVars, webVars>>

NextActions == FormatActions
SpecActions == InitActions /\ [][NextActions]_vars

(***************************************************************************)
(* format_game_info applied to a raw candidate                             *)
(***************************************************************************)
InitValidate ==
    /\ candidate \in Candidates /\ vres = NoResult
    /\ IdleCard /\ IdleAct /\ IdleDet /\ IdleWeb

Validate ==
    /\ vres.kind = "none"
    /\ vres' = format_game_info(candidate)
    /\ UNCHANGED <<candidate, cardVars, actVars, detVars, webVars>>

NextValidate == Validate
SpecValidate == InitValidate /\ [][NextValidate]_vars

(***************************************************************************)
(* PokerTextDetector: add_keywords and is_poker_related                    *)
(***************************************************************************)
InitDetector ==
    /\ poker_keywords = BaseKeywords
    /\ dtext \in Texts /\ dthreshold \in Thresholds /\ dres = NoScore
    /\ IdleCard /\ IdleAct /\ IdleVal /\ IdleWeb

AddKeywords ==
    \E new_keywords \in SUBSET ExtraTerms :
        /\ poker_keywords' = add_keywords(poker_keywords, new_keywords)
        /\ UNCHANGED <<dtext, dthreshold, dres, cardVars, actVars, valVars, webVars>>

IsPokerRelated ==
    /\ dres.kind = "none"
    /\ LET score == calculate_tfidf(poker_keywords, dtext)
           rel   == is_poker_related(poker_keywords, dtext, dthreshold)
       IN dres' = [kind |-> rel.kind, num |-> score.num, den |-> score.den,
                   related |-> rel.related, lexicon |-> poker_keywords]
    /\ UNCHANGED <<poker_keywords, dtext, dthreshold, cardVars, actVars, valVars, webVars>>

NextDetector == AddKeywords \/ IsPokerRelated
SpecDetector == InitDetector /\ [][NextDetector]_vars

(***************************************************************************)
(* web_app: index, process, clear_history on one session                   *)
(***************************************************************************)
Init ==
    /\ session = [has_key |-> FALSE, conversation_history |-> <<>>]
    /\ req = NoReq
    /\ IdleCard /\ IdleAct /\ IdleVal /\ IdleDet

Index ==
    /\ session' = [session EXCEPT !.has_key = TRUE]
    /\ req' = [NoReq EXCEPT !.op = "index", !.prior = session.conversation_history]
    /\ UNCHANGED <<cardVars, actVars, valVars, detVars>>

\* the end of a /process request with outcome r: the cookie and the record
\* of the request
Respond(r, text, llm, prompt_raises, explain_raises) ==
    /\ session' = IF r.assigned
                  THEN [has_key |-> TRUE, conversation_history |-> r.history]
                  ELSE session
    /\ req' = [op |-> "process", text |-> text, llm |-> llm,
               prompt_raises |-> prompt_raises, explain_raises |-> explain_raises,
               prior |-> session.conversation_history,
               calls |-> r.calls, outcome |-> r.outcome]

Process ==
    \E text \in WebTexts, llm \in LLMReplies, prompt_raises \in BOOLEAN, explain_raises \in BOOLEAN :
        /\ Len(session.conversation_history) < 2 * MaxTurns
        /\ Respond(process(session.conversation_history,
                           Append(session.conversation_history, UserEntry(text)),
                           first_message(is_poker_related(BaseKeywords, text, DefaultThreshold),
                                         extract_poker_info(llm),
                                         prompt_raises, explain_raises),
                           explain_raises),
                   text, llm, prompt_raises, explain_raises)
        /\ UNCHANGED <<cardVars, actVars, valVars, detVars>>

ClearHistory ==
    /\ session' = [has_key |-> TRUE, conversation_history |-> <<>>]
    /\ req' = [NoReq EXCEPT !.op = "clear", !.prior = session.conversation_history]
    /\ UNCHANGED <<cardVars, actVars, valVars, detVars>>

Next == Index \/ Process \/ ClearHistory
Spec == Init /\ [][Next]_vars

(***************************************************************************)
(* Properties                                                              *)
(***************************************************************************)
Distinct(cards) == \A i, j \in 1..Len(cards) : i # j => cards[i] # cards[j]
AllCards(cards) == \A i \in 1..Len(cards) : cards[i] \in Cards

Returned == vres.kind = "return"

\* C1: whenever format_game_info returns "Success", the returned user_hand
\* holds exactly 2 distinct valid Cards, the returned flop exactly 0 or 3
\* distinct valid Cards, and the returned turn and river 0 or 1 valid Card each.
C1_SuccessCardCounts ==
    (Returned /\ vres.status = Success) =>
        /\ Len(vres.info.user_hand) = 2
        /\ Distinct(vres.info.user_hand) /\ AllCards(vres.info.user_hand)
        /\ Len(vres.info.flop) \in {0, 3}
        /\ Distinct(vres.info.flop) /\ AllCards(vres.info.flop)
        /\ Len(vres.info.turn) \in {0, 1} /\ AllCards(vres.info.turn)
        /\ Len(vres.info.river) \in {0, 1} /\ AllCards(vres.info.river)

\* the numbered checks of the validation contract, on a candidate whose
\* positions are present
Check1(c) == StrUpper(StrStrip(c.user_position)) = <<>>
                \/ StrUpper(StrStrip(c.opponent_position)) = <<>>
Check2(c) == StrUpper(StrStrip(c.user_position)) = StrUpper(StrStrip(c.opponent_position))
Check3(c) == Len(c.user_hand) # 2
Check4(c) == Len(c.flop) \notin {0, 3}
Check5(c) == Len(c.turn) \notin {0, 1}
Check6(c) == Len(c.river) \notin {0, 1}
NormalizedCards(c) ==
    format_cards_array(c.user_hand) \o format_cards_array(c.flop)
        \o format_cards_array(c.turn) \o format_cards_array(c.river)
Check7(c) == ~Distinct(NormalizedCards(c))

\* the message of the highest-numbered failing check, "Success" if none fails
LastFailing(c) ==
    IF Check7(c) THEN ErrDuplicate
    ELSE IF Check6(c) THEN ErrRiverCount
    ELSE IF Check5(c) THEN ErrTurnCount
    ELSE IF Check4(c) THEN ErrFlopCount
    ELSE IF Check3(c) THEN (IF c.user_hand = <<>> THEN ErrHandMissing ELSE ErrHandCount)
    ELSE IF Check2(c) THEN ErrSamePos
    ELSE IF Check1(c)
         THEN (IF StrStrip(c.user_position) = <<>> THEN ErrUserPos ELSE ErrOppPos)
    ELSE Success

\* C2: format_game_info never short-circuits and is last-error-wins: the
\* returned status is the message of the highest-numbered failing check, and
\* it is "Success" exactly when no check fails.
C2_LastErrorWins ==
    Returned =>
        /\ vres.status = LastFailing(candidate)
        /\ vres.status = Success <=>
             ~(Check1(candidate) \/ Check2(candidate) \/ Check3(candidate) \/ Check4(candidate)
               \/ Check5(candidate) \/ Check6(candidate) \/ Check7(candidate))

\* a candidate failing checks 1, 3 and 4 at once is reported as the flop error
C2_Witness ==
    /\ Returned
    /\ Check1(candidate) /\ Check3(candidate) /\ Check4(candidate)
    /\ ~Check2(candidate)
    /\ vres.status = ErrFlopCount

ReturnedCards ==
    vres.info.user_hand \o vres.info.flop \o vres.info.turn \o vres.info.river

\* C3: the duplicate-card status is returned if and only if some Card occurs
\* more than once among the normalized user_hand, flop, turn and river; the
\* hand ["Ah","Ah"] gets the duplicate status, and a "Success" result never
\* holds the same Card twice.
C3_DuplicateIff ==
    Returned =>
        /\ vres.status = ErrDuplicate <=>
             \E i, j \in 1..Len(ReturnedCards) : i < j /\ ReturnedCards[i] = ReturnedCards[j]
        /\ candidate.user_hand = <<tAh, tAh>> => vres.status = ErrDuplicate
        /\ vres.status = Success => Distinct(ReturnedCards)

\* the hand ["Ah","Ah"] has been validated
C3_Witness ==
    /\ Returned
    /\ candidate.user_hand = <<tAh, tAh>>
    /\ vres.status = ErrDuplicate

\* a token of the exact shape Kind(amount), amount a run of digits
IsExactSized(tok) ==
    \E kind \in {sBet, sRaise, sAllIn} :
        /\ StartsWith(tok, kind \o <<"(">>)
        /\ Len(tok) >= Len(kind) + 3
        /\ tok[Len(tok)] = ")"
        /\ \A i \in (Len(kind) + 2)..(Len(tok) - 1) : IsDigit(tok[i])

ExactSizedForm(tok) ==
    LET kind == CHOOSE k \in {sBet, sRaise, sAllIn} : StartsWith(tok, k \o <<"(">>)
        amount == DigitsValue(SubSeq(tok, Len(kind) + 2, Len(tok) - 1), 0)
    IN kind \o <<"(">> \o NatToStr(amount) \o <<")">>

RECURSIVE ExactActions(_)
ExactActions(toks) ==
    IF toks = <<>> THEN <<>>
    ELSE (IF Head(toks) \in {sCall, sCheck} THEN <<Head(toks)>>
          ELSE IF IsExactSized(Head(toks)) THEN <<ExactSizedForm(Head(toks))>>
          ELSE <<>>) \o ExactActions(Tail(toks))

\* C4: the normalized action list is, in order, exactly the tokens that are
\* "Call", "Check" or of the exact shape Kind(amount) with a non-negative
\* integer amount, each sized action re-serialized; every other token is dropped.
C4_ExactShapeOnly ==
    apc = "done" => actOut = ExactActions(actIn)

\* C5: for a candidate with an absent position, format_game_info completes
\* and returns a pair whose status is an error status.
C5_AbsentPositionStatus ==
    (vres.kind # "none" /\ (candidate.user_position = None \/ candidate.opponent_position = None))
        => (vres.kind = "return" /\ ContainsError(vres.status))

\* C6: format_card returns the empty result or a canonical Card, and a
\* non-empty result fed back into format_card comes back unchanged.
C6_CardCanonicalIdempotent ==
    /\ cpc \in {"once", "twice"} => (cardOut = <<>> \/ cardOut \in Cards)
    /\ (cpc = "twice" /\ cardOut # <<>>) => cardAgain = cardOut

\* a token that is not canonical itself was normalized to Ah and fed back
C6_Witness ==
    cpc = "twice" /\ cardTok = tah /\ cardOut = tAh /\ cardAgain = tAh

CallsMade == {req.calls[i] : i \in 1..Len(req.calls)}

\* C7: in every /process request the extractor is invoked only after
\* is_poker_related returned true for the request's text; when it returns
\* false the request ends not-relevant and the extractor is never invoked.
C7_GateBeforeExtractor ==
    req.op = "process" =>
        /\ \A j \in 1..Len(req.calls) :
              req.calls[j] = cExtract =>
                 /\ is_poker_related(BaseKeywords, req.text, DefaultThreshold).related
                 /\ \E i \in 1..(j - 1) : req.calls[i] = cGate
        /\ (cGate \in CallsMade
              /\ ~is_poker_related(BaseKeywords, req.text, DefaultThreshold).related)
             => (req.outcome = "not_relevant" /\ cExtract \notin CallsMade)

\* a relevant first message reached the extractor
C7_Witness ==
    req.op = "process" /\ req.calls[1] = cGate /\ cExtract \in CallsMade

\* the first message passed the gate and the extractor returned "Success"
FirstMessageGood ==
    /\ is_poker_related(BaseKeywords, req.text, DefaultThreshold).related
    /\ extract_poker_info(req.llm).kind = "pair"
    /\ extract_poker_info(req.llm).status = Success

\* C9: on the first message, explain is invoked only if the gate passed and
\* the extractor returned "Success"; for every other outcome the handler
\* invokes no explain, and it, like any raised exception, leaves the stored
\* history empty.
C9_ExplainOnlyOnSuccess ==
    (req.op = "process" /\ req.prior = <<>>) =>
        /\ cExplain \in CallsMade => FirstMessageGood
        /\ ~FirstMessageGood =>
             (cExplain \notin CallsMade /\ session.conversation_history = <<>>)
        /\ req.outcome = "exception" => session.conversation_history = <<>>

\* the extractor gave its status-less result for a candidate without a position
C9_Witness ==
    /\ req.op = "process" /\ req.prior = <<>>
    /\ req.llm.kind = "json" /\ req.llm.game_info.user_position = None
    /\ cExtract \in CallsMade
    /\ req.outcome = "exception"

Alternating(h) ==
    /\ Len(h) % 2 = 0
    /\ \A i \in 1..Len(h) : h[i].role = IF i % 2 = 1 THEN "user" ELSE "assistant"

C8_NoLexiconTermScoresZero ==
    (dres.kind # "none" /\ \A i \in 1..Len(dtext) : dtext[i] \notin dres.lexicon) =>
        /\ dres.kind = "return"
        /\ dres.num = 0
        /\ ~dres.related

\* the empty text was scored
C8_Witness ==
    dres.kind = "return" /\ dtext = <<>> /\ dres.num = 0 /\ ~dres.related

====
